---- MODULE Spec2Model ----
(***************************************************************************)
(* Model of the provider-abstraction layer of Parser-for-job-sites:        *)
(*   src/src/api/HhAPI.py        HhAPI, ControllerHH                        *)
(*   src/src/api/SuperJobAPI.py  SuperJobAPI, ControllerSuperJob            *)
(*                                                                         *)
(* The program keeps no state between calls.  The model's state is the     *)
(* last call: which operation ran (op), its inputs including everything    *)
(* the network answered (arg), what the caller got back (outcome) and the  *)
(* URLs the operation fetched (requests).                                  *)
(***************************************************************************)
EXTENDS Integers, Sequences, FiniteSets, TLC

VARIABLES op, arg, outcome, requests

vars == <<op, arg, outcome, requests>>

(***************************************************************************)
(* Bounds of the model.                                                    *)
(***************************************************************************)
\* result items in one search payload
MaxItems == 2
\* entries of the /areas catalog, all three levels together
MaxEntries == 5
\* entries of the /towns/ catalog
MaxTowns == 2

SeqsUpTo(S, n) == UNION {[1..k -> S] : k \in 0..n}

(***************************************************************************)
(* Python values.  Every value carries its type tag; a dict is a record    *)
(* over the keys the code reads, with Missing marking a key that is not    *)
(* in the dict.                                                            *)
(***************************************************************************)
None == [t |-> "NoneType"]
Missing == [t |-> "missing"]
PyStr(s) == [t |-> "str", s |-> s]
PyInt(n) == [t |-> "int", n |-> n]
PyFloat(n) == [t |-> "float", n |-> n]
PyDict(d) == [t |-> "dict", d |-> d]
PyList(l) == [t |-> "list", l |-> l]

\* What a call hands back to its caller: a returned value or a raised exception.
Return(v) == [kind |-> "return", exc |-> "", value |-> v]
Raise(e) == [kind |-> "raise", exc |-> e, value |-> None]

\* "Нет данных", the placeholder literal of both _parse methods (transliterated).
NoData == PyStr("Net dannykh")

\* d.get(k, default) on a dict
Get(d, k, default) == IF d.d[k] = Missing THEN default ELSE d.d[k]

\* d.get(k)
Get1(d, k) == Get(d, k, None)

\* x.get(k, default) on any value: only a dict has the method .get
MethodGet(x, k, default) ==
  IF x.t = "dict" THEN Return(Get(x, k, default)) ELSE Raise("AttributeError")

\* len(d) of a dict: the number of keys it holds
DictLen(d) == Cardinality({k \in DOMAIN d.d : d.d[k] # Missing})

\* bool(x) as used by "if salary:"
Truthy(x) ==
  CASE x.t = "NoneType" -> FALSE
    [] x.t = "dict" -> DictLen(x) # 0
    [] x.t = "list" -> Len(x.l) # 0
    [] x.t = "str" -> x.s # ""
    [] x.t \in {"int", "float"} -> x.n # 0
    [] OTHER -> TRUE

\* a == b on Python values: numbers compare by value across int and float
PyEq(a, b) ==
  IF a.t \in {"int", "float"} /\ b.t \in {"int", "float"} THEN a.n = b.n
  ELSE a = b

\* float(x)
ToFloat(x) ==
  CASE x.t \in {"int", "float"} -> Return(PyFloat(x.n))
    [] x.t = "str" -> Raise("ValueError")
    [] OTHER -> Raise("TypeError")

\* int(x): the strings of the model are not integer literals
ToInt(x) ==
  CASE x.t \in {"int", "float"} -> Return(PyInt(x.n))
    [] x.t = "str" -> Raise("ValueError")
    [] OTHER -> Raise("TypeError")

\* the decimal text of the numbers the model uses
Digits(n) ==
  CASE n = 0 -> "0" [] n = 1 -> "1" [] n = 7 -> "7" [] n = 8 -> "8"
    [] n = 100 -> "100" [] n = 150 -> "150" [] OTHER -> "n"

\* str(x)
ToStr(x) ==
  CASE x.t = "str" -> x
    [] x.t = "NoneType" -> PyStr("None")
    [] x.t = "int" -> PyStr(Digits(x.n))
    [] x.t = "float" -> PyStr(Digits(x.n) \o ".0")
    [] x.t = "dict" -> PyStr("{...}")
    [] OTHER -> PyStr("[...]")

(***************************************************************************)
(* Vacancy: the record both adapters build, nine positional arguments.     *)
(***************************************************************************)
Vacancy(id, title, employer, requirement, from_salary, to_salary, currency, area, url) ==
  [id |-> id, title |-> title, employer_name |-> employer,
   requirement_snippet |-> requirement, salary_from |-> from_salary,
   salary_to |-> to_salary, currency |-> currency, location_name |-> area,
   url |-> url]

\* The outcome of evaluating a sequence of expressions left to right: the
\* first exception raised, or the sequence of their values.
FirstRaise(rs) ==
  IF \E i \in 1..Len(rs) : rs[i].kind = "raise"
  THEN rs[CHOOSE i \in 1..Len(rs) :
            rs[i].kind = "raise" /\ \A j \in 1..(i - 1) : rs[j].kind = "return"]
  ELSE Return(PyList([i \in 1..Len(rs) |-> rs[i].value]))

\* str(x) as an expression that cannot raise
StrOf(x) == Return(ToStr(x))

\* str(<r>) where evaluating <r> may raise
StrThen(r) == IF r.kind = "raise" THEN r ELSE StrOf(r.value)

(***************************************************************************)
(* HhAPI._parse                                                            *)
(***************************************************************************)
\* float(salary.get(k)) if salary.get(k) is not None else None
HhBound(salary, k) ==
  IF Get1(salary, k) # None THEN ToFloat(Get1(salary, k)) ELSE Return(None)

\* str(salary.get('currency')) if salary.get('currency') is not None else None
HhCurrency(salary) ==
  IF Get1(salary, "currency") # None
  THEN Return(ToStr(Get1(salary, "currency"))) ELSE Return(None)

\* from_salary, to_salary, currency of one item (lines 86-93)
HhSalary(item) ==
  LET salary == Get(item, "salary", PyDict([from |-> Missing, to |-> Missing, currency |-> Missing]))
  IN IF Truthy(salary)
     THEN IF salary.t = "dict"
          THEN FirstRaise(<<HhBound(salary, "from"), HhBound(salary, "to"), HhCurrency(salary)>>)
          ELSE Raise("AttributeError")
     ELSE Return(PyList(<<None, None, None>>))

\* the six arguments of Vacancy(...) that are read from the item (lines 96-104)
HhFields(item) ==
  FirstRaise(<<
    ToInt(Get(item, "id", NoData)),
    StrOf(Get(item, "name", NoData)),
    StrThen(MethodGet(Get(item, "employer", PyDict([name |-> Missing])), "name", NoData)),
    StrThen(MethodGet(Get(item, "snippet", NoData), "requirement", NoData)),
    StrThen(MethodGet(Get(item, "area", PyDict([name |-> Missing])), "name", NoData)),
    StrOf(Get(item, "alternate_url", NoData))>>)

\* one iteration of the loop over items
HhVacancy(item) ==
  LET s == HhSalary(item)
      f == HhFields(item)
  IN IF s.kind = "raise" THEN s
     ELSE IF f.kind = "raise" THEN f
     ELSE Return(Vacancy(f.value.l[1], f.value.l[2], f.value.l[3], f.value.l[4],
                         s.value.l[1], s.value.l[2], s.value.l[3],
                         f.value.l[5], f.value.l[6]))

\* for item in data_from_json.get('items'): ... ; return vacancy_list
HhParse(data_from_json) ==
  LET items == Get1(data_from_json, "items")
  IN IF items.t # "list" THEN Raise("TypeError")
     ELSE FirstRaise([i \in 1..Len(items.l) |-> HhVacancy(items.l[i])])

(***************************************************************************)
(* SuperJobAPI._parse                                                      *)
(***************************************************************************)
\* float(item.get(k)) if item.get(k) != 0 else None
SjBound(item, k) ==
  IF ~PyEq(Get1(item, k), PyInt(0)) THEN ToFloat(Get1(item, k)) ELSE Return(None)

\* str(item.get('currency'))
SjCurrency(item) == Return(ToStr(Get1(item, "currency")))

\* from_salary, to_salary, currency of one item (lines 96-98)
SjSalary(item) ==
  FirstRaise(<<SjBound(item, "payment_from"), SjBound(item, "payment_to"), SjCurrency(item)>>)

\* the six arguments of Vacancy(...) that are read from the item (lines 101-109)
SjFields(item) ==
  FirstRaise(<<
    ToInt(Get(item, "id", NoData)),
    StrOf(Get(item, "profession", NoData)),
    StrThen(MethodGet(Get(item, "employer", PyDict([name |-> Missing])), "name", NoData)),
    StrOf(Get(item, "candidat", NoData)),
    StrThen(MethodGet(Get(item, "town", PyDict([title |-> Missing])), "title", NoData)),
    StrOf(Get(item, "link", NoData))>>)

\* one iteration of the loop over objects
SjVacancy(item) ==
  LET s == SjSalary(item)
      f == SjFields(item)
  IN IF s.kind = "raise" THEN s
     ELSE IF f.kind = "raise" THEN f
     ELSE Return(Vacancy(f.value.l[1], f.value.l[2], f.value.l[3], f.value.l[4],
                         s.value.l[1], s.value.l[2], s.value.l[3],
                         f.value.l[5], f.value.l[6]))

\* for item in raw_response.get('objects'): ... ; return vacancy_list
SjParse(raw_response) ==
  LET objects == Get1(raw_response, "objects")
  IN IF objects.t # "list" THEN Raise("TypeError")
     ELSE FirstRaise([i \in 1..Len(objects.l) |-> SjVacancy(objects.l[i])])

(***************************************************************************)
(* The HTTP call as the adapters see it.  requests.get either raises a     *)
(* transport exception or returns a response with a status code and a      *)
(* body; response.json() of a body that is not JSON raises the decode      *)
(* error of the installed requests version (field exc).                    *)
(***************************************************************************)
Failure(e) == [kind |-> "transport", exc |-> e, status |-> 0, body |-> None]
Response(status, body) == [kind |-> "response", exc |-> "", status |-> status, body |-> body]
NotJson(e) == [kind |-> "response", exc |-> e, status |-> 200, body |-> PyStr("<html>")]

\* the subclasses of requests.exceptions.RequestException the model raises
RequestExceptions ==
  {"RequestException", "ConnectionError", "Timeout", "requests.JSONDecodeError"}

\* the handler narrowed to "except requests.exceptions.ConnectionError"
CaughtConnectionOnly(exc) == exc = "ConnectionError"

\* the handler widened to "except Exception"
CaughtAnyException(exc) == exc \in RequestExceptions \cup {"Exception"}

\* except requests.exceptions.RequestException
Caught(exc) == exc \in RequestExceptions

\* response.json()
Json(http) == IF http.body.t = "str" THEN Raise(http.exc) ELSE Return(http.body)

\* try: <body> except requests.exceptions.RequestException: return []
FailSoft(body) ==
  IF body.kind = "raise" /\ Caught(body.exc) THEN Return(PyList(<<>>)) ELSE body

(***************************************************************************)
(* HhAPI.get_request                                                       *)
(***************************************************************************)
\* the emptiness test taken on the items instead: len(data_from_json['items']) == 0
HhNothingFoundByItems(data_from_json) == Get1(data_from_json, "items") = PyList(<<>>)

\* data_from_json['found'] == 0
HhNothingFound(data_from_json) == PyEq(data_from_json.d["found"], PyInt(0))

\* the body of the try block (lines 50-67)
HhTry(http) ==
  IF http.kind = "transport" THEN Raise(http.exc)
  ELSE IF http.status = 200
       THEN LET j == Json(http)
            IN IF j.kind = "raise" THEN j
               ELSE IF j.value.d["found"] = Missing THEN Raise("KeyError")
               ELSE IF HhNothingFound(j.value) THEN Return(PyList(<<>>))
               ELSE HhParse(j.value)
  ELSE IF http.status = 404 THEN Raise("Exception")
  ELSE Return(None)

HhGetRequestResult(http) == FailSoft(HhTry(http))

(***************************************************************************)
(* SuperJobAPI.get_request                                                 *)
(***************************************************************************)
\* len(data) == 0
SjNothingFound(data) == DictLen(data) = 0

\* the body of the try block (lines 52-77)
SjTry(http) ==
  IF http.kind = "transport" THEN Raise(http.exc)
  ELSE IF http.status = 200
       THEN LET j == Json(http)
            IN IF j.kind = "raise" THEN j
               ELSE IF SjNothingFound(j.value) THEN Return(PyList(<<>>))
               ELSE SjParse(j.value)
  ELSE IF http.status = 404 THEN Raise("Exception")
  ELSE Return(None)

SjGetRequestResult(http) == FailSoft(SjTry(http))

(***************************************************************************)
(* ControllerHH.get_city_id                                                *)
(*                                                                         *)
(* The /areas catalog is a list of entries {id, name, areas}; the code     *)
(* calls a top-level entry "area", an entry of its "areas" "country" and   *)
(* an entry of a country's "areas" "region".  A country's "areas" key may  *)
(* be missing or hold a list.                                              *)
(***************************************************************************)
\* a loop that ended without reaching a return statement
Fallthrough == [t |-> "fallthrough"]

\* the test without its second half: "areas" in country
CountryHasAreasKey(country) == country.areas # Missing

\* "areas" in country and country["areas"]
CountryHasAreas(country) == country.areas # Missing /\ Truthy(country.areas)

\* for region in country["areas"]: if region["name"] == city: return region["id"]
RECURSIVE RegionLoop(_, _, _)
RegionLoop(regions, i, city) ==
  IF i > Len(regions) THEN Fallthrough
  ELSE IF regions[i].name = city THEN regions[i].id
  ELSE RegionLoop(regions, i + 1, city)

\* for country in area["areas"]: ... (lines 141-147)
RECURSIVE CountryLoop(_, _, _)
CountryLoop(countries, j, city) ==
  IF j > Len(countries) THEN Fallthrough
  ELSE LET country == countries[j]
       IN IF CountryHasAreas(country)
          THEN LET r == RegionLoop(country.areas.l, 1, city)
               IN IF r # Fallthrough THEN r ELSE CountryLoop(countries, j + 1, city)
          ELSE IF country.name = city THEN country.id
          ELSE CountryLoop(countries, j + 1, city)

\* for area in response: ... (line 140)
RECURSIVE AreaLoop(_, _, _)
AreaLoop(response, a, city) ==
  IF a > Len(response) THEN Fallthrough
  ELSE LET r == CountryLoop(response[a].areas, 1, city)
       IN IF r # Fallthrough THEN r ELSE AreaLoop(response, a + 1, city)

\* the value get_city_id hands back once the catalog is fetched; running off
\* the end of the function returns None
GetCityIdResult(response, city) ==
  LET r == AreaLoop(response, 1, city)
  IN IF r = Fallthrough THEN Return(None) ELSE Return(r)

(***************************************************************************)
(* ControllerHH.order_by, ControllerSuperJob.order_by                      *)
(***************************************************************************)
HhOrderByResult(param) ==
  IF PyEq(param, PyStr("1")) THEN Return(PyStr("publication_time"))
  ELSE IF PyEq(param, PyStr("2")) THEN Return(PyStr("salary_desc"))
  ELSE Return(None)

\* Board B's mapping with Board A's else branch
SjOrderByNoDefault(param) ==
  IF PyEq(param, PyStr("1")) THEN Return(PyStr("date"))
  ELSE IF PyEq(param, PyStr("2")) THEN Return(PyStr("payment_desc"))
  ELSE Return(None)

SjOrderByResult(param) ==
  IF PyEq(param, PyStr("1")) THEN Return(PyStr("date"))
  ELSE IF PyEq(param, PyStr("2")) THEN Return(PyStr("payment_desc"))
  ELSE Return(PyStr("relevance"))

(***************************************************************************)
(* ControllerSuperJob.validate_city                                        *)
(***************************************************************************)
\* s.lower() on the names of the model
Lower(s) ==
  CASE s = "Moskva" -> "moskva" [] s = "Moskva " -> "moskva "
    [] s = "Kazan" -> "kazan" [] OTHER -> s

\* the comparison made case-insensitive: item['title'].lower() == city.lower()
TitleMatchesIgnoringCase(item, city) == Lower(item.title) = Lower(city)

\* item['title'] == city
TitleMatches(item, city) == item.title = city

\* for item in response["objects"]: if item['title'] == city: return city
\* return None
ValidateCityResult(objects, city) ==
  IF \E i \in 1..Len(objects) : TitleMatches(objects[i], city)
  THEN Return(PyStr(city)) ELSE Return(None)

(***************************************************************************)
(* The inputs: what the caller passes and what the network answers.        *)
(***************************************************************************)
\* a text value of a payload: key missing, null, or a string
TextValues(v) == {Missing, None, PyStr(v)}

\* a sub-object holding one text key k: key missing, null, {}, {k: null}, {k: v}
SubObjects(k, v) ==
  {Missing, None} \cup {PyDict([x \in {k} |-> y]) : y \in TextValues(v)}

\* a salary bound of a payload: key missing, null, zero, or an amount
BoundValues(n) == {Missing, None, PyInt(0), PyInt(n)}

\* Board A's salary sub-object: key missing, null, or a dict of from/to/currency
HhSalaries ==
  {Missing, None} \cup
  {PyDict([from |-> f, to |-> t, currency |-> c]) :
     f \in BoundValues(100), t \in BoundValues(150), c \in TextValues("RUR")}

HhItem(id, name, employer, snippet, salary, area, url) ==
  PyDict([id |-> id, name |-> name, employer |-> employer, snippet |-> snippet,
          salary |-> salary, area |-> area, alternate_url |-> url])

\* a Board A item with every key present
HhFullItem ==
  HhItem(PyInt(7), PyStr("Dev"), PyDict([name |-> PyStr("Acme")]),
         PyDict([requirement |-> PyStr("Python")]),
         PyDict([from |-> PyInt(100), to |-> PyInt(150), currency |-> PyStr("RUR")]),
         PyDict([name |-> PyStr("Moskva")]), PyStr("https://hh.ru/vacancy/7"))

\* Board A items: the full item with one of its keys varied
HhItems ==
  {[HhFullItem EXCEPT !.d.salary = x] : x \in HhSalaries}
  \cup {[HhFullItem EXCEPT !.d.id = Missing]}
  \cup {[HhFullItem EXCEPT !.d.name = x] : x \in TextValues("Dev")}
  \cup {[HhFullItem EXCEPT !.d.employer = x] : x \in SubObjects("name", "Acme")}
  \cup {[HhFullItem EXCEPT !.d.snippet = x] : x \in SubObjects("requirement", "Python")}
  \cup {[HhFullItem EXCEPT !.d.area = x] : x \in SubObjects("name", "Moskva")}
  \cup {[HhFullItem EXCEPT !.d.alternate_url = x] : x \in TextValues("https://hh.ru/vacancy/7")}

\* Board A items that are combined into longer lists: the full item, one
\* without salary, one with a zero bound, one without the snippet sub-object
HhCoreItems ==
  {HhFullItem,
   [HhFullItem EXCEPT !.d.salary = None],
   [HhFullItem EXCEPT !.d.salary = PyDict([from |-> PyInt(0), to |-> None, currency |-> PyStr("RUR")])],
   [HhFullItem EXCEPT !.d.snippet = Missing]}

\* Board A item lists: every item alone, the core items in every order
HhItemLists == {<<x>> : x \in HhItems} \cup SeqsUpTo(HhCoreItems, MaxItems)

\* Board A search payloads: {found, items}, either key possibly missing
HhPayloads ==
  {PyDict([found |-> f, items |-> i]) :
     f \in {Missing, PyInt(0), PyInt(2)},
     i \in {Missing} \cup {PyList(l) : l \in HhItemLists}}

SjItem(id, profession, employer, candidat, from, to, currency, town, link) ==
  PyDict([id |-> id, profession |-> profession, employer |-> employer,
          candidat |-> candidat, payment_from |-> from, payment_to |-> to,
          currency |-> currency, town |-> town, link |-> link])

\* a Board B item with every key present
SjFullItem ==
  SjItem(PyInt(8), PyStr("Dev"), PyDict([name |-> PyStr("Acme")]), PyStr("Python"),
         PyInt(100), PyInt(150), PyStr("rub"), PyDict([title |-> PyStr("Moskva")]),
         PyStr("https://superjob.ru/vakansii/8"))

\* Board B items: the full item with its salary keys or one text key varied
SjItems ==
  {[SjFullItem EXCEPT !.d.payment_from = f, !.d.payment_to = t, !.d.currency = c] :
     f \in BoundValues(100), t \in BoundValues(150), c \in TextValues("rub")}
  \cup {[SjFullItem EXCEPT !.d.id = Missing]}
  \cup {[SjFullItem EXCEPT !.d.profession = x] : x \in TextValues("Dev")}
  \cup {[SjFullItem EXCEPT !.d.employer = x] : x \in SubObjects("name", "Acme")}
  \cup {[SjFullItem EXCEPT !.d.candidat = x] : x \in TextValues("Python")}
  \cup {[SjFullItem EXCEPT !.d.town = x] : x \in SubObjects("title", "Moskva")}
  \cup {[SjFullItem EXCEPT !.d.link = x] : x \in TextValues("https://superjob.ru/vakansii/8")}

\* Board B items that are combined into longer lists: the full item, one
\* with both bounds zero, one without the salary keys, one with a null employer
SjCoreItems ==
  {SjFullItem,
   [SjFullItem EXCEPT !.d.payment_from = PyInt(0), !.d.payment_to = PyInt(0)],
   [SjFullItem EXCEPT !.d.payment_from = Missing, !.d.payment_to = Missing, !.d.currency = Missing],
   [SjFullItem EXCEPT !.d.employer = None]}

\* Board B item lists: every item alone, the core items in every order
SjItemLists == {<<x>> : x \in SjItems} \cup SeqsUpTo(SjCoreItems, MaxItems)

\* Board B search payloads: {objects, total}, either key possibly missing
SjPayloads ==
  {PyDict([objects |-> o, total |-> n]) :
     o \in {Missing} \cup {PyList(l) : l \in SjItemLists},
     n \in {Missing, PyInt(2)}}

\* what requests.get can do on a search call
HttpOutcomes(payloads) ==
  {Failure(e) : e \in {"ConnectionError", "Timeout"}}
  \cup {Response(200, p) : p \in payloads}
  \cup {NotJson(e) : e \in {"requests.JSONDecodeError", "ValueError"}}
  \cup {Response(s, PyStr("error")) : s \in {403, 404, 500}}

\* the /areas catalog; the id of an entry is derived from its position
Names == {"Moskva", "Omsk"}

Region(a, c, r, name) == [id |-> PyInt(100 * a + 10 * c + r), name |-> name]

Country(a, c, sk) ==
  [id |-> PyInt(100 * a + 10 * c), name |-> sk.name,
   areas |-> IF sk.areas = Missing THEN Missing
             ELSE PyList([r \in 1..Len(sk.areas.l) |-> Region(a, c, r, sk.areas.l[r])])]

Area(a, sk) ==
  [id |-> PyInt(100 * a), name |-> sk.name,
   areas |-> [c \in 1..Len(sk.areas) |-> Country(a, c, sk.areas[c])]]

\* second-level entries that hold k catalog entries, themselves included:
\* a childless one has no "areas" key or an empty list
CountryShapes(k) ==
  IF k = 1 THEN [name : Names, areas : {Missing, PyList(<<>>)}]
  ELSE [name : Names, areas : {PyList(l) : l \in [1..(k - 1) -> Names]}]

\* lists of second-level entries that hold m catalog entries in all
RECURSIVE CountryListShapes(_)
CountryListShapes(m) ==
  IF m = 0 THEN {<<>>}
  ELSE UNION {{<<c>> \o rest : c \in CountryShapes(k), rest \in CountryListShapes(m - k)} :
                k \in 1..m}

\* top-level entries that hold n catalog entries, themselves included
AreaShapes(n) == [name : Names, areas : CountryListShapes(n - 1)]

\* lists of top-level entries that hold m catalog entries in all
RECURSIVE AreaListShapes(_)
AreaListShapes(m) ==
  IF m = 0 THEN {<<>>}
  ELSE UNION {{<<a>> \o rest : a \in AreaShapes(k), rest \in AreaListShapes(m - k)} :
                k \in 1..m}

\* every catalog of at most MaxEntries entries
Catalogs ==
  {[a \in 1..Len(sk) |-> Area(a, sk[a])] :
     sk \in UNION {AreaListShapes(m) : m \in 0..MaxEntries}}

HhCities == {"", "Moskva", "Kazan"}

\* the /towns/ catalog
Titles == {"Moskva", "moskva", "Moskva "}

Towns ==
  {[i \in 1..Len(l) |-> [id |-> PyInt(i), title |-> l[i]]] : l \in SeqsUpTo(Titles, MaxTowns)}

SjCities == {"", "Moskva", "moskva", "Kazan"}

\* sort preference tokens
SortParams == {None, PyStr("1"), PyStr("2"), PyStr("3"), PyStr(""), PyInt(1)}

(***************************************************************************)
(* The state machine: one action per public operation.  No operation       *)
(* reads anything an earlier call left behind, so a behaviour is one call  *)
(* made from the initial state.                                            *)
(***************************************************************************)
Init ==
  /\ op = "init"
  /\ arg = None
  /\ outcome = Return(None)
  /\ requests = <<>>

HhGetRequest ==
  /\ op = "init"
  /\ \E http \in HttpOutcomes(HhPayloads) :
    /\ op' = "HhAPI.get_request"
    /\ arg' = [http |-> http]
    /\ requests' = <<"https://api.hh.ru/vacancies">>
    /\ outcome' = HhGetRequestResult(http)

SjGetRequest ==
  /\ op = "init"
  /\ \E http \in HttpOutcomes(SjPayloads) :
    /\ op' = "SuperJobAPI.get_request"
    /\ arg' = [http |-> http]
    /\ requests' = <<"https://api.superjob.ru/2.0/vacancies/">>
    /\ outcome' = SjGetRequestResult(http)

HhParseCall ==
  /\ op = "init"
  /\ \E data \in HhPayloads :
    /\ op' = "HhAPI._parse"
    /\ arg' = [data |-> data]
    /\ requests' = <<>>
    /\ outcome' = HhParse(data)

SjParseCall ==
  /\ op = "init"
  /\ \E data \in SjPayloads :
    /\ op' = "SuperJobAPI._parse"
    /\ arg' = [data |-> data]
    /\ requests' = <<>>
    /\ outcome' = SjParse(data)

GetCityId ==
  /\ op = "init"
  /\ \E city \in HhCities, catalog \in Catalogs :
    /\ op' = "ControllerHH.get_city_id"
    /\ arg' = [city |-> city, catalog |-> catalog]
    /\ IF city = ""
       THEN requests' = <<>> /\ outcome' = Return(None)
       ELSE /\ requests' = <<"https://api.hh.ru/areas">>
            /\ outcome' = GetCityIdResult(catalog, city)

ValidateCity ==
  /\ op = "init"
  /\ \E city \in SjCities, towns \in Towns :
    /\ op' = "ControllerSuperJob.validate_city"
    /\ arg' = [city |-> city, towns |-> towns]
    /\ IF city = ""
       THEN requests' = <<>> /\ outcome' = Return(None)
       ELSE /\ requests' = <<"https://api.superjob.ru/2.0/towns/">>
            /\ outcome' = ValidateCityResult(towns, city)

HhOrderBy ==
  /\ op = "init"
  /\ \E param \in SortParams :
    /\ op' = "ControllerHH.order_by"
    /\ arg' = [param |-> param]
    /\ requests' = <<>>
    /\ outcome' = HhOrderByResult(param)

SjOrderBy ==
  /\ op = "init"
  /\ \E param \in SortParams :
    /\ op' = "ControllerSuperJob.order_by"
    /\ arg' = [param |-> param]
    /\ requests' = <<>>
    /\ outcome' = SjOrderByResult(param)

Next ==
  \/ HhGetRequest
  \/ SjGetRequest
  \/ HhParseCall
  \/ SjParseCall
  \/ GetCityId
  \/ ValidateCity
  \/ HhOrderBy
  \/ SjOrderBy

Spec == Init /\ [][Next]_vars

(***************************************************************************)
(* Shorthands for the properties.                                          *)
(***************************************************************************)
IsGetRequest == op \in {"HhAPI.get_request", "SuperJobAPI.get_request"}

IsParse == op \in {"HhAPI._parse", "SuperJobAPI._parse"}

EmptyList == Return(PyList(<<>>))

\* the result items of the payload a _parse call was given
ParsedItems ==
  IF op = "HhAPI._parse" THEN Get1(arg.data, "items") ELSE Get1(arg.data, "objects")

\* the value a provider's item gives for a salary bound ("from" or "to"):
\* None when the key, or the salary sub-object holding it, is missing
SourceBound(item, k) ==
  IF op = "HhAPI._parse"
  THEN IF Get1(item, "salary").t = "dict" THEN Get1(Get1(item, "salary"), k) ELSE None
  ELSE Get1(item, "payment_" \o k)

\* the salary step of normalizing one item
SalaryStep(item) == IF op = "HhAPI._parse" THEN HhSalary(item) ELSE SjSalary(item)

BoundOf(vacancy, k) == IF k = "from" THEN vacancy.salary_from ELSE vacancy.salary_to

TextFieldsOf(vacancy) ==
  {vacancy.title, vacancy.employer_name, vacancy.requirement_snippet,
   vacancy.location_name, vacancy.url}

(***************************************************************************)
(* C1: for both adapters and every outcome of the HTTP call, get_request   *)
(* hands back a sequence of Vacancy (possibly empty) or raises the 404     *)
(* request-failure error; nothing else.  A status 200 response is taken    *)
(* to carry a payload that normalizes (malformed payloads are a separate   *)
(* matter).                                                                *)
(***************************************************************************)
C1_PayloadNormalizes ==
  arg.http.kind = "response" /\ arg.http.status = 200 =>
    /\ arg.http.body.t = "dict"
    /\ IF op = "HhAPI.get_request"
       THEN arg.http.body.d.found # Missing /\ HhParse(arg.http.body).kind = "return"
       ELSE SjParse(arg.http.body).kind = "return"

C1_SequenceOrNotFound ==
  IsGetRequest /\ C1_PayloadNormalizes =>
    \/ outcome.kind = "return" /\ outcome.value.t = "list"
    \/ outcome = Raise("Exception")

(***************************************************************************)
(* C2: when the HTTP GET fails at transport level, get_request of either   *)
(* adapter returns an empty sequence and raises nothing.                   *)
(***************************************************************************)
C2_TransportFailureIsEmpty ==
  IsGetRequest /\ arg.http.kind = "transport" => outcome = EmptyList

C2_Witness ==
  /\ op = "SuperJobAPI.get_request"
  /\ arg.http = Failure("Timeout")
  /\ outcome = EmptyList

(***************************************************************************)
(* C3: a response with status 404 makes get_request of either adapter      *)
(* raise the request-failure error to the caller; the fail-soft handler    *)
(* does not turn it into an empty sequence.                                *)
(***************************************************************************)
C3_NotFoundPropagates ==
  IsGetRequest /\ arg.http.kind = "response" /\ arg.http.status = 404
    => outcome = Raise("Exception")

C3_Witness ==
  /\ op = "HhAPI.get_request"
  /\ arg.http.kind = "response" /\ arg.http.status = 404
  /\ outcome.kind = "raise" /\ ~Caught(outcome.exc)

(***************************************************************************)
(* C4: in every Vacancy either _parse produces, currency is absent         *)
(* whenever salary_from and salary_to are both absent.                     *)
(***************************************************************************)
C4_NoCurrencyWithoutBounds ==
  IsParse /\ outcome.kind = "return" =>
    \A i \in 1..Len(outcome.value.l) :
      LET v == outcome.value.l[i]
      IN v.salary_from = None /\ v.salary_to = None => v.currency = None

(***************************************************************************)
(* C5: a salary bound whose source value is missing, null or zero comes    *)
(* out absent: the salary step of the item does not fail, and the bound    *)
(* of the produced Vacancy is None, never 0.0.                             *)
(***************************************************************************)
C5_MissingOrZeroBoundAbsent ==
  IsParse /\ ParsedItems.t = "list" =>
    \A i \in 1..Len(ParsedItems.l), k \in {"from", "to"} :
      LET item == ParsedItems.l[i]
      IN SourceBound(item, k) = None \/ PyEq(SourceBound(item, k), PyInt(0)) =>
           /\ SalaryStep(item).kind = "return"
           /\ outcome.kind = "return" => BoundOf(outcome.value.l[i], k) = None

(***************************************************************************)
(* C6: whatever text keys or sub-objects (employer, snippet, area, town)   *)
(* the items lack, normalization completes and every text field of every   *)
(* Vacancy is a string.  Items without an id, with a null sub-object or    *)
(* whose salary step fails are left aside: those failures are not about    *)
(* missing text.                                                           *)
(***************************************************************************)
SubObjectsOf(item) ==
  IF op = "HhAPI._parse" THEN {item.d.employer, item.d.snippet, item.d.area}
  ELSE {item.d.employer, item.d.town}

C6_TextAlwaysPopulated ==
  /\ IsParse /\ ParsedItems.t = "list"
  /\ \A i \in 1..Len(ParsedItems.l) :
       /\ ParsedItems.l[i].d.id # Missing
       /\ None \notin SubObjectsOf(ParsedItems.l[i])
       /\ SalaryStep(ParsedItems.l[i]).kind = "return"
  => /\ outcome.kind = "return"
     /\ \A i \in 1..Len(outcome.value.l) :
          \A f \in TextFieldsOf(outcome.value.l[i]) : f.t = "str"

(***************************************************************************)
(* Positions in the /areas catalog.  <<a>> is top-level entry a, <<a, c>>  *)
(* entry c of its "areas", <<a, c, r>> entry r of that entry's "areas".    *)
(***************************************************************************)
TopLevel(catalog) == {<<a>> : a \in 1..Len(catalog)}

SecondLevel(catalog) ==
  UNION {{<<a, c>> : c \in 1..Len(catalog[a].areas)} : a \in 1..Len(catalog)}

KidsOf(entry) == IF entry.areas = Missing THEN <<>> ELSE entry.areas.l

ThirdLevel(catalog) ==
  UNION {{<<p[1], p[2], r>> : r \in 1..Len(KidsOf(catalog[p[1]].areas[p[2]]))} :
           p \in SecondLevel(catalog)}

EntryAt(catalog, p) ==
  IF Len(p) = 1 THEN catalog[p[1]]
  ELSE IF Len(p) = 2 THEN catalog[p[1]].areas[p[2]]
  ELSE catalog[p[1]].areas[p[2]].areas.l[p[3]]

\* an entry with no children: no "areas" key, or an empty list
Childless(catalog, p) ==
  IF Len(p) = 1 THEN Len(catalog[p[1]].areas) = 0
  ELSE IF Len(p) = 2 THEN Len(KidsOf(catalog[p[1]].areas[p[2]])) = 0
  ELSE TRUE

\* p comes before q when the catalog is walked depth first
Before(p, q) ==
  \E n \in 1..3 :
    /\ \A m \in 1..(n - 1) : m <= Len(p) /\ m <= Len(q) /\ p[m] = q[m]
    /\ \/ n = Len(p) + 1 /\ n <= Len(q)
       \/ n <= Len(p) /\ n <= Len(q) /\ p[n] < q[n]

Matches(catalog, P, city) == {p \in P : EntryAt(catalog, p).name = city}

\* the match that comes before every other match
First(ps) == CHOOSE p \in ps : \A q \in ps : q = p \/ Before(p, q)

AllEntries(catalog) == TopLevel(catalog) \cup SecondLevel(catalog) \cup ThirdLevel(catalog)

\* no two entries of the catalog carry the same name
NoDuplicateNames(catalog) ==
  \A p, q \in AllEntries(catalog) :
    EntryAt(catalog, p).name = EntryAt(catalog, q).name => p = q

IsGetCityId == op = "ControllerHH.get_city_id"

(***************************************************************************)
(* C7 as stated: get_city_id returns the id of the first sub-region whose  *)
(* name is the city; for a name that matches only a childless top-level    *)
(* entry, that entry's id; None for a name no entry carries; None without  *)
(* a network call for the empty name.  Catalogs are taken without          *)
(* duplicate names, as the tie-break rule assumes.                         *)
(***************************************************************************)
C7_TopLevelFallback ==
  IsGetCityId /\ NoDuplicateNames(arg.catalog) =>
    LET cat == arg.catalog
        sub == Matches(cat, ThirdLevel(cat), arg.city)
        top == Matches(cat, {p \in TopLevel(cat) : Childless(cat, p)}, arg.city)
    IN /\ arg.city = "" => outcome = Return(None) /\ requests = <<>>
       /\ arg.city # "" /\ sub # {} => outcome = Return(EntryAt(cat, First(sub)).id)
       /\ arg.city # "" /\ sub = {} /\ top # {} => outcome = Return(EntryAt(cat, First(top)).id)
       /\ arg.city # "" /\ Matches(cat, AllEntries(cat), arg.city) = {} => outcome = Return(None)

(***************************************************************************)
(* C7 amended: get_city_id returns the id of the first entry, in catalog   *)
(* traversal order, that carries the city's name and is either a           *)
(* third-level entry or a childless second-level entry (an entry of a      *)
(* top-level entry's "areas"); top-level entries are never matched; None   *)
(* when there is no such entry; None without a network call for the empty  *)
(* name.                                                                   *)
(***************************************************************************)
C7_SecondLevelFallback ==
  IsGetCityId =>
    LET cat == arg.catalog
        searched == ThirdLevel(cat) \cup {p \in SecondLevel(cat) : Childless(cat, p)}
        found == Matches(cat, searched, arg.city)
    IN IF arg.city = "" THEN outcome = Return(None) /\ requests = <<>>
       ELSE /\ requests = <<"https://api.hh.ru/areas">>
            /\ IF found # {} THEN outcome = Return(EntryAt(cat, First(found)).id)
               ELSE outcome = Return(None)

\* a childless second-level entry named like the city is found after a
\* top-level entry of the same name was passed over
C7_Witness ==
  /\ IsGetCityId /\ arg.city = "Moskva"
  /\ \E p \in SecondLevel(arg.catalog) :
       /\ Childless(arg.catalog, p)
       /\ EntryAt(arg.catalog, p).areas # Missing
       /\ EntryAt(arg.catalog, p).name = arg.city
       /\ EntryAt(arg.catalog, <<1>>).name = arg.city
       /\ outcome = Return(EntryAt(arg.catalog, p).id)

(***************************************************************************)
(* C8: validate_city returns the city name itself exactly when the town    *)
(* list holds an entry whose title equals it character for character,      *)
(* and None otherwise; the empty name gives None without a network call.   *)
(***************************************************************************)
C8_ExactMatchOnly ==
  op = "ControllerSuperJob.validate_city" =>
    /\ outcome = Return(PyStr(arg.city))
         <=> \E i \in 1..Len(arg.towns) : arg.towns[i].title = arg.city
    /\ outcome \in {Return(PyStr(arg.city)), Return(None)}
    /\ arg.city = "" => outcome = Return(None) /\ requests = <<>>

\* a town list holding only a differently cased title
C8_Witness ==
  /\ op = "ControllerSuperJob.validate_city"
  /\ arg.city = "moskva"
  /\ \E i \in 1..Len(arg.towns) : arg.towns[i].title = "Moskva"
  /\ \A i \in 1..Len(arg.towns) : arg.towns[i].title # "moskva"
  /\ requests = <<"https://api.superjob.ru/2.0/towns/">>
  /\ outcome = Return(None)

(***************************************************************************)
(* C9: the sort mapping.  Board A: "1" gives publication_time, "2" gives   *)
(* salary_desc, anything else (None included) gives None.  Board B: "1"    *)
(* gives date, "2" gives payment_desc, anything else gives relevance, so   *)
(* Board B never gives None.                                               *)
(***************************************************************************)
SortTable(one, two, other) ==
  [p \in SortParams |-> IF p = PyStr("1") THEN one ELSE IF p = PyStr("2") THEN two ELSE other]

C9_SortMapping ==
  /\ op = "ControllerHH.order_by" =>
       outcome = Return(SortTable(PyStr("publication_time"), PyStr("salary_desc"), None)[arg.param])
  /\ op = "ControllerSuperJob.order_by" =>
       /\ outcome = Return(SortTable(PyStr("date"), PyStr("payment_desc"), PyStr("relevance"))[arg.param])
       /\ outcome.value # None

C9_Witness ==
  /\ op = "ControllerSuperJob.order_by"
  /\ arg.param = None
  /\ outcome = Return(PyStr("relevance"))

(***************************************************************************)
(* C10: a 200 response with zero matches is an empty sequence, not an      *)
(* error: Board A whenever the payload says found = 0, whatever its items  *)
(* hold; Board B whenever the payload's objects list is empty.             *)
(***************************************************************************)
C10_ZeroMatchesIsEmpty ==
  IsGetRequest /\ arg.http.kind = "response" /\ arg.http.status = 200
    /\ arg.http.body.t = "dict" =>
      /\ op = "HhAPI.get_request" /\ PyEq(arg.http.body.d.found, PyInt(0))
           => outcome = EmptyList
      /\ op = "SuperJobAPI.get_request" /\ arg.http.body.d.objects = PyList(<<>>)
           => outcome = EmptyList

\* found = 0 although the payload carries items
C10_Witness ==
  /\ op = "HhAPI.get_request"
  /\ arg.http.kind = "response" /\ arg.http.status = 200 /\ arg.http.body.t = "dict"
  /\ arg.http.body.d.found = PyInt(0)
  /\ arg.http.body.d.items = PyList(<<HhFullItem>>)
  /\ outcome = EmptyList

====
